---- MODULE Spec2Model ----
(***************************************************************************)
(* Model of the wikidata-constraints-violation-checker scripts.            *)
(*                                                                         *)
(* Spec       the batch pipeline of checkDataQuality.py: main drives each  *)
(*            batch through fetchNumberOfStatements,                       *)
(*            fetchNumberOfSitelinks, checkQualityByBatch (with the        *)
(*            per-item fallback checkQualityByItem), fetchOresScore and    *)
(*            printResults.  Every remote response is an input chosen      *)
(*            with \E; an uncaught exception ends the run (pc = "crashed").*)
(* ParseSpec  the walk of parseItemCheck over one constraint-check report, *)
(*            one countResults call per step.                              *)
(*                                                                         *)
(* Identifiers are the strings "Q1", "Q2", ...; an item record is a        *)
(* function from the keys of the Python dict to their values.              *)
(***************************************************************************)
EXTENDS Integers, Sequences, FiniteSets, TLC

\* ---------------------------------------------------------------- bounds
MaxLines == 3
MaxBatchSize == 4
MaxStatements == 2
MaxResults == 2
\* random mode: the largest number of items asked for with -r
MaxRandomItems == 2
\* random mode: identifiers are drawn from Q1 .. Q<MaxRandomId>
MaxRandomId == 2
\* random mode: the generator is resumed at most this many times
MaxRounds == 2
MaxRevisions == 2
MaxModels == 2
\* scoring: probabilities are multiples of 1 / ProbabilityGrain
ProbabilityGrain == 5

\* ------------------------------------------------------- generic helpers
Min(a, b) == IF a < b THEN a ELSE b

Range(s) == {s[i] : i \in 1..Len(s)}

\* dict.update: the keys of u overwrite those of d
Update(d, u) == u @@ d

\* the sub-sequence of s whose elements are in S, order kept
RECURSIVE Restrict(_, _)
Restrict(s, S) ==
    IF s = <<>> THEN <<>>
    ELSE IF Head(s) \in S THEN <<Head(s)>> \o Restrict(Tail(s), S)
         ELSE Restrict(Tail(s), S)

IsPrefix(s, t) == Len(s) <= Len(t) /\ SubSeq(t, 1, Len(s)) = s

\* ------------------------------------------------- the knowledge base
\* What the remote services hold for each identifier.  The content is
\* fixed; which calls fail and which identifiers a response covers is
\* chosen by the actions.
IdOf(i) == "Q" \o ToString(i)

Ids == {IdOf(i) : i \in 1..(MaxLines + 1)}

IdxOf(id) == CHOOSE i \in 1..(MaxLines + 1) : IdOf(i) = id

\* page['revisions'][0]['revid']
RevidOf(id) == 100 + IdxOf(id)

\* page['pageprops']['wb-claims']
WbClaimsOf(id) == IdxOf(id) % 3

\* item['sitelinks']: the project codes the item is linked from
Projects == {"enwiki", "dewiki", "commonswiki", "specieswiki", "enwikiquote"}

SitelinksOf(id) ==
    CASE IdxOf(id) % 3 = 1 -> {"enwiki", "dewiki", "commonswiki", "enwikiquote"}
      [] IdxOf(id) % 3 = 2 -> {"specieswiki"}
      [] OTHER -> {}

\* k.endswith('wiki')
EndsWithWiki(k) == k \in {"enwiki", "dewiki", "commonswiki", "specieswiki"}

\* --------------------------------------------------------------- constants
OUTPUT_DELIMITER == ";"

Header == <<"QID", "statements", "violations_mandatory_level",
            "violations_normal_level", "violations_suggestion_level",
            "violated_statements", "total_sitelinks", "wikipedia_sitelinks",
            "ores_score">>

ORES_CLASSES == {"E", "D", "C", "B", "A"}

\* the weights counted from 0
ORES_WEIGHTS_FromZero == [x \in ORES_CLASSES |->
    CASE x = "E" -> 0 [] x = "D" -> 1 [] x = "C" -> 2 [] x = "B" -> 3 [] x = "A" -> 4]

ORES_WEIGHTS == [x \in ORES_CLASSES |->
    CASE x = "E" -> 1 [] x = "D" -> 2 [] x = "C" -> 3 [] x = "B" -> 4 [] x = "A" -> 5]

Statuses == {"violation", "warning", "suggestion", "bad-parameters", "compliance"}

\* ------------------------------------------------------ Identifier Source
\* a split into k parts that gives the whole remainder to the last part
ArraySplitRemainderLast(seq, k) ==
    LET n == Len(seq)
        q == n \div k
        start(i) == (i - 1) * q
        size(i) == IF i = k THEN n - (k - 1) * q ELSE q
    IN  [i \in 1..k |-> SubSeq(seq, start(i) + 1, start(i) + size(i))]

\* numpy.array_split(seq, k): k consecutive parts, the first Len(seq) % k of
\* them one element longer than the others
ArraySplit(seq, k) ==
    LET n == Len(seq)
        q == n \div k
        r == n % k
        start(i) == (i - 1) * q + Min(i - 1, r)
        size(i) == q + (IF i <= r THEN 1 ELSE 0)
    IN  [i \in 1..k |-> SubSeq(seq, start(i) + 1, start(i) + size(i))]

\* queryItemsFromFile with numberOfBatches = len(lines) // batchSize, at
\* least 1
queryItemsFromFileFloor(inputLines, size) ==
    LET numberOfBatches == IF Len(inputLines) \div size = 0 THEN 1
                           ELSE Len(inputLines) \div size
    IN  ArraySplit(inputLines, numberOfBatches)

\* the batches queryItemsFromFile hands to fetchNumberOfStatements, in order
queryItemsFromFile(inputLines, size) ==
    LET numberOfBatches == (Len(inputLines) \div size) + 1
    IN  ArraySplit(inputLines, numberOfBatches)

\* ------------------------------------------------------ Constraint Checker
\* the dictionary parseItemCheck starts from
InitialResults ==
    [violations_mandatory |-> 0, violations_normal |-> 0,
     violations_suggestion |-> 0, violated_statements |-> 0,
     statement_is_violated |-> FALSE]

\* countResults without its "ignore" branch
countResultsNoIgnore(status, results) ==
    LET counted ==
            CASE status = "violation" ->
                     [results EXCEPT !.violations_mandatory = @ + 1]
              [] status = "warning" ->
                     [results EXCEPT !.violations_normal = @ + 1]
              [] status = "suggestion" ->
                     [results EXCEPT !.violations_suggestion = @ + 1]
              [] OTHER -> results
    IN  IF counted.statement_is_violated = FALSE
        THEN [counted EXCEPT !.statement_is_violated = TRUE,
                             !.violated_statements = @ + 1]
        ELSE counted

countResults(status, results) ==
    IF status = "bad-parameters" THEN results
    ELSE LET counted ==
                 CASE status = "violation" ->
                          [results EXCEPT !.violations_mandatory = @ + 1]
                   [] status = "warning" ->
                          [results EXCEPT !.violations_normal = @ + 1]
                   [] status = "suggestion" ->
                          [results EXCEPT !.violations_suggestion = @ + 1]
                   [] OTHER -> results
         IN  IF counted.statement_is_violated = FALSE
             THEN [counted EXCEPT !.statement_is_violated = TRUE,
                                  !.violated_statements = @ + 1]
             ELSE counted

\* checkConstraints.py: the same tally on the counter dictionary of the
\* earlier script
InitialCounter ==
    [violations |-> 0, warnings |-> 0, suggestions |-> 0,
     violated_statements |-> 0, statement_is_violated |-> FALSE]

incrementCounter(status, counter) ==
    IF status = "bad-parameters" THEN counter
    ELSE LET counted ==
                 CASE status = "violation" -> [counter EXCEPT !.violations = @ + 1]
                   [] status = "warning" -> [counter EXCEPT !.warnings = @ + 1]
                   [] status = "suggestion" -> [counter EXCEPT !.suggestions = @ + 1]
                   [] OTHER -> counter
         IN  IF counted.statement_is_violated = FALSE
             THEN [counted EXCEPT !.statement_is_violated = TRUE,
                                  !.violated_statements = @ + 1]
             ELSE counted

\* the statement loop without the reset of the flag
enterStatementNoReset(results) == results

\* results['statement_is_violated'] = False, first line of the statement loop
enterStatement(results) == [results EXCEPT !.statement_is_violated = FALSE]

\* the loops "for ... in ...results: results = countResults(status, results)"
RECURSIVE countAll(_, _)
countAll(statuses, results) ==
    IF statuses = <<>> THEN results
    ELSE countAll(Tail(statuses), countResults(Head(statuses), results))

\* the body of "for statement in statement_group".  A statement is
\* [mainsnak, qualifiers, references]: the status of every result entry of
\* each part in walk order; a part the response leaves out is <<>>.
parseStatement(statement, results) ==
    LET reset == enterStatement(results)
        main == countAll(statement.mainsnak, reset)
        qual == countAll(statement.qualifiers, main)
    IN  countAll(statement.references, qual)

RECURSIVE parseStatements(_, _)
parseStatements(statements, results) ==
    IF statements = <<>> THEN results
    ELSE parseStatements(Tail(statements), parseStatement(Head(statements), results))

\* del results['statement_is_violated']
DelFlag(results) ==
    [k \in (DOMAIN results) \ {"statement_is_violated"} |-> results[k]]

\* parseItemCheck without "if not type(claims) is dict: return results":
\* claims.items() on the empty list raises AttributeError
parseItemCheckListAsDict(itemCheck) ==
    IF ~itemCheck.claimsIsDict THEN [raised |-> "AttributeError"]
    ELSE DelFlag(parseStatements(itemCheck.statements, InitialResults))

\* An item check is [claimsIsDict, statements]: claimsIsDict is FALSE when
\* the response gives 'claims' as the empty list, and statements lists the
\* statements of all properties in walk order.  The value is the dictionary
\* returned; an exception raised inside would be the value [raised |-> ...].
parseItemCheck(itemCheck) ==
    IF ~itemCheck.claimsIsDict THEN InitialResults
    ELSE DelFlag(parseStatements(itemCheck.statements, InitialResults))

\* jsonResponse['wbcheckconstraints'][itemId] as the service holds it
ItemCheckOf(id) ==
    CASE IdxOf(id) % 3 = 1 ->
             [claimsIsDict |-> TRUE,
              statements |->
                 << [mainsnak |-> <<"violation", "bad-parameters", "violation">>,
                     qualifiers |-> <<"warning">>,
                     references |-> <<"suggestion">>],
                    [mainsnak |-> <<"bad-parameters">>,
                     qualifiers |-> <<>>,
                     references |-> <<"warning">>] >>]
      [] IdxOf(id) % 3 = 2 -> [claimsIsDict |-> FALSE, statements |-> <<>>]
      [] OTHER ->
             [claimsIsDict |-> TRUE,
              statements |->
                 << [mainsnak |-> <<"compliance">>,
                     qualifiers |-> <<>>,
                     references |-> <<>>] >>]

\* ---------------------------------------------------- Quality-Score Fetcher
\* score['itemquality']['score']['probability'], in thousandths
ProbabilityOf(id) ==
    CASE IdxOf(id) % 3 = 1 ->
             [x \in ORES_CLASSES |->
                 CASE x = "E" -> 0 [] x = "D" -> 100 [] x = "C" -> 200
                   [] x = "B" -> 300 [] x = "A" -> 400]
      [] IdxOf(id) % 3 = 2 ->
             [x \in ORES_CLASSES |-> IF x = "E" THEN 1000 ELSE 0]
      [] OTHER ->
             [x \in ORES_CLASSES |->
                 CASE x = "E" -> 125 [] x = "D" -> 125 [] x = "C" -> 250
                   [] x = "B" -> 250 [] x = "A" -> 250]

\* "if(probability[x]): weightedSum += probability[x] * ORES_WEIGHTS[x]":
\* what one class adds to weightedSum
weightedTerm(probability, x) ==
    IF probability[x] # 0 THEN probability[x] * ORES_WEIGHTS[x] ELSE 0

\* "for x in probability: if probability[x]: weightedSum += ...", thousandths
RECURSIVE weightedSumOver(_, _)
weightedSumOver(classes, probability) ==
    IF classes = {} THEN 0
    ELSE LET x == CHOOSE c \in classes : TRUE
         IN  weightedTerm(probability, x) + weightedSumOver(classes \ {x}, probability)

weightedSum(probability) == weightedSumOver(DOMAIN probability, probability)

\* round(x, 2) of x = numerator / denominator, as hundredths (ties to even)
roundTo2(numerator, denominator) ==
    LET q == (100 * numerator) \div denominator
        r == (100 * numerator) % denominator
    IN  IF 2 * r > denominator \/ (2 * r = denominator /\ q % 2 = 1)
        THEN q + 1 ELSE q

\* round(x, 2) of x given in thousandths, as hundredths
Round2(thousandths) == roundTo2(thousandths, 1000)

\* ------------------------------------------------------------ Result Writer
RowKeys == {"statements", "violations_mandatory", "violations_normal",
            "violations_suggestion", "violated_statements",
            "total_sitelinks", "wikipedia_sitelinks", "ores_score"}

\* one output line: the nine values joined by OUTPUT_DELIMITER
Row(itemId, itemResults) ==
    <<itemId, itemResults["statements"], itemResults["violations_mandatory"],
      itemResults["violations_normal"], itemResults["violations_suggestion"],
      itemResults["violated_statements"], itemResults["total_sitelinks"],
      itemResults["wikipedia_sitelinks"], itemResults["ores_score"]>>

\* printResults without "if('failed' in itemResults.keys()): continue"
RECURSIVE printResultsNoSkip(_, _)
printResultsNoSkip(keys, batch) ==
    IF keys = <<>> THEN [rows |-> <<>>, raised |-> FALSE]
    ELSE IF ~(RowKeys \subseteq DOMAIN batch[Head(keys)])
         THEN [rows |-> <<>>, raised |-> TRUE]
         ELSE LET rest == printResultsNoSkip(Tail(keys), batch)
              IN  [rows |-> <<Row(Head(keys), batch[Head(keys)])>> \o rest.rows,
                   raised |-> rest.raised]

\* The loop of printResults over the batch in dict order: the lines it
\* appends, and whether a missing key raised KeyError (the lines printed
\* before the exception stay in the file).
RECURSIVE printResults(_, _)
printResults(keys, batch) ==
    IF keys = <<>> THEN [rows |-> <<>>, raised |-> FALSE]
    ELSE IF "failed" \in DOMAIN batch[Head(keys)]
         THEN printResults(Tail(keys), batch)
         ELSE IF ~(RowKeys \subseteq DOMAIN batch[Head(keys)])
              THEN [rows |-> <<>>, raised |-> TRUE]
              ELSE LET rest == printResults(Tail(keys), batch)
                   IN  [rows |-> <<Row(Head(keys), batch[Head(keys)])>> \o rest.rows,
                        raised |-> rest.raised]

\* ------------------------------------------------------------------ state
VARIABLES
    lines,        \* the identifiers read from the input file, in order
    batchSize,    \* the global batchSize (option -b)
    pc,           \* where main is: "start", the stage about to run, "done",
                  \* or "crashed" when an exception left main
    batchIdx,     \* position of queryItemsFromFile in its list of batches
    batchOfIds,   \* the identifiers of the batch being processed
    keys,         \* the keys of the batch dictionary, in insertion order
    batch,        \* the batch dictionary: identifier -> item record
    byItem,       \* TRUE once checkQualityByBatch took its except branch
    itemIdx,      \* position of the one-by-one loop of checkQualityByBatch
    request,      \* the last outbound call: [service, ids]
    reply,        \* what came back for it: [status, covered], covered being
                  \* the identifiers (revision ids for ORES) the response holds
    raised,       \* the function whose exception ended the run, or "none"
    out,          \* the lines of the output file
    errorLog,     \* the lines of error.log
    reported,     \* the values printed after each batch, one tuple per print
    constraintCalls, \* the identifier lists of the constraint-check calls
                  \* issued for the current batch, in order
    numberOfItems, \* option -r: the number of random items (0: file mode)
    counter,      \* the local counter of queryRandomItems
    generated,    \* how many identifiers generateRandomItemIds has produced
    yielded,      \* how many identifiers the yielded batches held
    checksFailed, \* checkConstraints.py: checksFailed of checkQuality
    totalItemsChecked, \* checkConstraints.py: totalItemsChecked of main
    presults,     \* ParseSpec: the results dictionary of parseItemCheck
    ppc,          \* ParseSpec: "idle", "mainsnak", "qualifiers",
                  \*            "references", "returned"
    pstatements,  \* ParseSpec: statements entered so far
    pentries,     \* ParseSpec: result entries read in the current part
    pstatus,      \* ParseSpec: the status handed to the last countResults
    pcounter,     \* ParseSpec: the counter dictionary of checkConstraints.py
                  \*            walking the same report
    pbase,        \* ParseSpec: violated_statements when the current
                  \*            statement was entered
    pnonclean,    \* ParseSpec: violation, warning and suggestion entries
                  \*            read in the current statement
    sprobability, \* ScoreSpec: the probability dictionary of one score
    spending,     \* ScoreSpec: the classes "for x in probability" has not
                  \*            visited yet
    ssum,         \* ScoreSpec: weightedSum
    sscore,       \* ScoreSpec: the ores_score stored, in hundredths
    spc,          \* ScoreSpec: "idle", "summing", "stored"
    lrevids,      \* LiftwingSpec: rev_ids of make_liftiwing_calls
    lmodels,      \* LiftwingSpec: models of make_liftiwing_calls
    ltasks,       \* LiftwingSpec: the state of the task of each
                  \*               (revision, model) pair
    llog,         \* LiftwingSpec: the lines logging.error has written
    lresult,      \* LiftwingSpec: what make_liftiwing_calls returned
    lpc           \* LiftwingSpec: "idle", "gathering", "returned", "raised"

randomVars == <<numberOfItems, counter, generated, yielded>>

itemVars == <<checksFailed, totalItemsChecked>>

liftwingVars == <<lrevids, lmodels, ltasks, llog, lresult, lpc>>

pipelineVars == <<lines, batchSize, pc, batchIdx, batchOfIds, keys, batch,
                  byItem, itemIdx, request, reply, raised, out, errorLog, reported,
                  constraintCalls, numberOfItems, counter, generated, yielded,
                  checksFailed, totalItemsChecked>>

parseVars == <<presults, ppc, pstatements, pentries, pstatus, pcounter, pbase,
               pnonclean>>

scoreVars == <<sprobability, spending, ssum, sscore, spc>>

vars == <<lines, batchSize, pc, batchIdx, batchOfIds, keys, batch, byItem,
          itemIdx, request, reply, raised, out, errorLog, reported,
          constraintCalls, numberOfItems, counter, generated, yielded,
          presults, ppc, pstatements, pentries, pstatus, pcounter, pbase,
          pnonclean, sprobability, spending, ssum, sscore, spc,
          checksFailed, totalItemsChecked,
          lrevids, lmodels, ltasks, llog, lresult, lpc>>

\* the input file holds Q1 .. Qn
InputFiles == {[i \in 1..n |-> IdOf(i)] : n \in 0..MaxLines}

\* the file ./output/<name> may be left over from an earlier run
StaleFiles == {<<>>, <<Header, <<"Q0", 0, 0, 0, 0, 0, 0, 0, 0>>>>}

PipelineIdle ==
    /\ lines = <<>>
    /\ batchSize = 1
    /\ pc = "idle"
    /\ batchIdx = 0
    /\ batchOfIds = <<>>
    /\ keys = <<>>
    /\ batch = <<>>
    /\ byItem = FALSE
    /\ itemIdx = 0
    /\ request = [service |-> "none", ids |-> <<>>]
    /\ reply = [status |-> "none", covered |-> {}]
    /\ raised = "none"
    /\ out = <<>>
    /\ errorLog = <<>>
    /\ reported = <<>>
    /\ constraintCalls = <<>>
    /\ numberOfItems = 0
    /\ counter = 0
    /\ generated = 0
    /\ yielded = 0
    /\ checksFailed = 0
    /\ totalItemsChecked = 0

ParseIdle ==
    /\ presults = InitialResults
    /\ ppc = "idle"
    /\ pstatements = 0
    /\ pentries = 0
    /\ pstatus = "none"
    /\ pcounter = InitialCounter
    /\ pbase = 0
    /\ pnonclean = 0

ScoreIdle ==
    /\ sprobability = [x \in ORES_CLASSES |-> 0]
    /\ spending = {}
    /\ ssum = 0
    /\ sscore = 0
    /\ spc = "idle"

LiftwingIdle ==
    /\ lrevids = <<>>
    /\ lmodels = <<>>
    /\ ltasks = <<>>
    /\ llog = <<>>
    /\ lresult = <<>>
    /\ lpc = "idle"

\* main after parseArguments (option -i), before printHeader
Init ==
    /\ lines \in InputFiles
    /\ batchSize \in 1..MaxBatchSize
    /\ pc = "start"
    /\ batchIdx = 1
    /\ batchOfIds = <<>>
    /\ keys = <<>>
    /\ batch = <<>>
    /\ byItem = FALSE
    /\ itemIdx = 0
    /\ request = [service |-> "none", ids |-> <<>>]
    /\ reply = [status |-> "none", covered |-> {}]
    /\ raised = "none"
    /\ out \in StaleFiles
    /\ errorLog = <<>>
    /\ reported = <<>>
    /\ constraintCalls = <<>>
    /\ numberOfItems = 0
    /\ counter = 0
    /\ generated = 0
    /\ yielded = 0
    /\ checksFailed = 0
    /\ totalItemsChecked = 0
    /\ ParseIdle
    /\ ScoreIdle
    /\ LiftwingIdle

Batches == queryItemsFromFile(lines, batchSize)

\* main with the stage order constraint check / quality scoring swapped
stageAfterScoreFirst(stage) ==
    CASE stage = "fetch" -> "sitelinks"
      [] stage = "sitelinks" -> "ores"
      [] stage = "ores" -> "constraints"
      [] stage = "constraints" -> "write"
      [] stage = "write" -> "fetch"

\* The body of "async for batch in batches" in main: the stage whose call
\* follows the given one; after the write the generator is resumed.
stageAfter(stage) ==
    CASE stage = "fetch" -> "sitelinks"
      [] stage = "sitelinks" -> "constraints"
      [] stage = "constraints" -> "ores"
      [] stage = "ores" -> "write"
      [] stage = "write" -> "fetch"

\* an exception nobody catches: it leaves main and run_until_complete
Crash(function) ==
    /\ pc' = "crashed"
    /\ raised' = function

\* ---------------------------------------------------------------- actions
\* open(outputFileName, 'w'): the header replaces whatever the file held
printHeader ==
    /\ pc = "start"
    /\ out' = <<Header>>
    /\ pc' = "fetch"
    /\ UNCHANGED <<lines, batchSize, batchIdx, batchOfIds, keys, batch, byItem,
                   itemIdx, request, reply, raised, errorLog, reported>>
    /\ UNCHANGED <<constraintCalls, randomVars, itemVars>>
    /\ UNCHANGED <<parseVars, scoreVars, liftwingVars>>

\* The dictionary fetchNumberOfStatements builds from the pages of the
\* response: live are the pages that carry pageprops.
statementRecords(live) ==
    [id \in live |-> ("revid" :> RevidOf(id)) @@ ("statements" :> WbClaimsOf(id))]

\* one logErrorMessage per page without pageprops, in page order
missingMessages(pages) == [i \in 1..Len(pages) |-> <<"does not exist or is a redirect", pages[i]>>]

\* the titles of a request in the order of their first occurrence: the
\* response holds one page per title
RECURSIVE Distinct(_)
Distinct(s) ==
    IF s = <<>> THEN <<>>
    ELSE <<Head(s)>> \o Distinct(SelectSeq(Tail(s), LAMBDA x : x # Head(s)))

\* fetchNumberOfStatements(batchOfIds) as the generator calls it.  The
\* response holds a page for the identifiers in present, with pageprops for
\* those in live.
fetchStatements(itemIds) ==
    /\ batchOfIds' = itemIds
    /\ request' = [service |-> "statements", ids |-> itemIds]
    /\ byItem' = FALSE
    /\ itemIdx' = 0
    /\ constraintCalls' = <<>>
    /\ \/ \E present \in SUBSET Range(itemIds) : \E live \in SUBSET present :
             /\ reply' = [status |-> "ok", covered |-> present]
             /\ keys' = Restrict(Distinct(itemIds), live)
             /\ batch' = statementRecords(live)
             /\ errorLog' = errorLog \o
                    missingMessages(Restrict(Distinct(itemIds), present \ live))
             /\ pc' = stageAfter("fetch")
             /\ UNCHANGED raised
       \/ \* transport failure, malformed JSON or no r['query']['pages']
          /\ reply' = [status |-> "failed", covered |-> {}]
          /\ Crash("fetchNumberOfStatements")
          /\ keys' = <<>>
          /\ batch' = <<>>
          /\ UNCHANGED errorLog

\* queryItemsFromFile resumes: fetchNumberOfStatements on the next batch
fetchNumberOfStatements ==
    /\ pc = "fetch"
    /\ numberOfItems = 0
    /\ batchIdx <= Len(Batches)
    /\ fetchStatements(Batches[batchIdx])
    /\ UNCHANGED <<lines, batchSize, batchIdx, out, reported, randomVars, itemVars>>
    /\ UNCHANGED <<parseVars, scoreVars, liftwingVars>>

\* the generator is exhausted: the async for ends and main returns
mainReturns ==
    /\ pc = "fetch"
    /\ numberOfItems = 0
    /\ batchIdx > Len(Batches)
    /\ pc' = "done"
    /\ UNCHANGED <<lines, batchSize, batchIdx, batchOfIds, keys, batch, byItem,
                   itemIdx, request, reply, raised, out, errorLog, reported>>
    /\ UNCHANGED <<constraintCalls, randomVars, itemVars>>
    /\ UNCHANGED <<parseVars, scoreVars, liftwingVars>>

\* the two counts fetchNumberOfSitelinks derives from item['sitelinks']
sitelinkCounts(sitelinks) ==
    ("total_sitelinks" :> Cardinality(sitelinks)) @@
    ("wikipedia_sitelinks" :>
        Cardinality({k \in sitelinks :
            EndsWithWiki(k) /\ k \notin {"commonswiki", "specieswiki"}}))

\* The response either lacks 'entities' or holds the entities in covered.
fetchNumberOfSitelinks ==
    /\ pc = "sitelinks"
    /\ request' = [service |-> "sitelinks", ids |-> keys]
    /\ \/ \E covered \in SUBSET Range(keys) :
            /\ reply' = [status |-> "ok", covered |-> covered]
            /\ batch' = [id \in DOMAIN batch |->
                            IF id \in covered
                            THEN Update(batch[id], sitelinkCounts(SitelinksOf(id)))
                            ELSE batch[id]]
            /\ pc' = stageAfter("sitelinks")
            /\ UNCHANGED raised
       \/ \* transport failure, or 'entities' not in r
          \E status \in {"failed", "no entities"} :
            /\ reply' = [status |-> status, covered |-> {}]
            /\ Crash("fetchNumberOfSitelinks")
            /\ UNCHANGED batch
    /\ UNCHANGED <<lines, batchSize, batchIdx, batchOfIds, keys, byItem, itemIdx,
                   out, errorLog, reported>>
    /\ UNCHANGED <<constraintCalls, randomVars, itemVars>>
    /\ UNCHANGED <<parseVars, scoreVars, liftwingVars>>

\* The identifiers of the response, in the order of itemKeys, that the loop
\* at the end of checkConstraints gets through: all of covered, or those
\* before the first one on which parseItemCheck raises.
parsedOf(itemKeys, covered) ==
    LET order == Restrict(itemKeys, covered)
        raising == {i \in 1..Len(order) :
                       "raised" \in DOMAIN parseItemCheck(ItemCheckOf(order[i]))}
    IN  {order[i] : i \in {j \in 1..Len(order) : \A k \in raising : j < k}}

\* What the loop at the end of checkConstraints does to the dictionary it
\* was given: every identifier of the response gets its parsed counters.
checkConstraints(batchOfResults, covered) ==
    [id \in DOMAIN batchOfResults |->
        IF id \in covered
        THEN Update(batchOfResults[id], parseItemCheck(ItemCheckOf(id)))
        ELSE batchOfResults[id]]

\* The record of itemId after "batchOfItems[itemId].update(checkedItemResults)".
\* callRaised tells whether checkConstraints raised; otherwise covered is the
\* set of identifiers its response holds.  On success checkConstraints has
\* updated itemResults in place and returns the one-entry dictionary
\* {itemId: itemResults}, so the update adds the key itemId to the record.
checkQualityByItem(itemId, itemResults, callRaised, covered) ==
    IF callRaised
    THEN Update(itemResults, "failed" :> TRUE)
    ELSE LET checked == checkConstraints(itemId :> itemResults, covered)
         IN  Update(checked[itemId], itemId :> "itemResults")

\* the three lines the except branch of checkQualityByBatch logs
batchFailedMessages(ids, exception) ==
    << <<"failed to check quality constraints on items", ids>>,
       <<"now checking them one-by-one">>,
       <<exception, ids>> >>

\* the two lines the except branch of checkQualityByItem logs
itemFailedMessages(itemId, exception) ==
    << <<"failed to check quality constraints on item", itemId>>,
       <<exception, <<itemId>>>> >>

\* what checkConstraints raises (r.status != 200, or 'error' in the
\* response); both sites raise Exception and the callers do not tell them apart
ConstraintExceptions == {"wbcheckconstraint API returned"}

\* checkQualityByBatch going through the items one by one whether or not
\* the batch-level call raised
afterBatchCallAlways(callRaised, itemKeys) ==
    IF itemKeys # <<>> THEN "byitem" ELSE stageAfter("constraints")

\* try / except of checkQualityByBatch: the one-by-one loop is entered in
\* the except branch only (and has nothing to do for an empty batch)
afterBatchCall(callRaised, itemKeys) ==
    IF callRaised /\ itemKeys # <<>> THEN "byitem" ELSE stageAfter("constraints")

\* the batch-level call of checkQualityByBatch
checkQualityByBatch ==
    /\ pc = "constraints"
    /\ request' = [service |-> "constraints", ids |-> keys]
    /\ constraintCalls' = Append(constraintCalls, keys)
    /\ \/ \E covered \in SUBSET Range(keys) :
            /\ reply' = [status |-> "ok", covered |-> covered]
            /\ batch' = checkConstraints(batch, parsedOf(keys, covered))
            /\ IF parsedOf(keys, covered) = covered
               THEN /\ pc' = afterBatchCall(FALSE, keys)
                    /\ UNCHANGED <<byItem, itemIdx, errorLog>>
               ELSE \* parseItemCheck raised inside the loop
                    /\ errorLog' = errorLog \o batchFailedMessages(keys, "AttributeError")
                    /\ byItem' = TRUE
                    /\ itemIdx' = 1
                    /\ pc' = afterBatchCall(TRUE, keys)
       \/ \* r.status != 200 or 'error' in jsonResponse: raised before the loop
          \E exception \in ConstraintExceptions :
            /\ reply' = [status |-> "failed", covered |-> {}]
            /\ errorLog' = errorLog \o batchFailedMessages(keys, exception)
            /\ byItem' = TRUE
            /\ itemIdx' = 1
            /\ pc' = afterBatchCall(TRUE, keys)
            /\ UNCHANGED batch
       \/ \* an entry of the response cannot be parsed: the loop raises after
          \* it has updated the identifiers in covered
          \E covered \in SUBSET Range(keys) :
            /\ covered # Range(keys)
            /\ reply' = [status |-> "malformed", covered |-> covered]
            /\ batch' = checkConstraints(batch, covered)
            /\ errorLog' = errorLog \o batchFailedMessages(keys, "KeyError")
            /\ byItem' = TRUE
            /\ itemIdx' = 1
            /\ pc' = afterBatchCall(TRUE, keys)
    /\ UNCHANGED <<lines, batchSize, batchIdx, batchOfIds, keys, raised, out, reported>>
    /\ UNCHANGED <<randomVars, itemVars>>
    /\ UNCHANGED <<parseVars, scoreVars, liftwingVars>>

\* one round of "for itemId, itemResults in batchOfItems.items()"
checkQualityByItemStep ==
    /\ pc = "byitem"
    /\ LET itemId == keys[itemIdx]
       IN  /\ request' = [service |-> "constraints", ids |-> <<itemId>>]
           /\ constraintCalls' = Append(constraintCalls, <<itemId>>)
           /\ \/ \E covered \in SUBSET {itemId} :
                    /\ reply' = [status |-> "ok", covered |-> covered]
                    /\ IF parsedOf(<<itemId>>, covered) = covered
                       THEN /\ batch' = [batch EXCEPT ![itemId] =
                                    checkQualityByItem(itemId, @, FALSE, covered)]
                            /\ UNCHANGED errorLog
                       ELSE \* parseItemCheck raised inside checkConstraints
                            /\ batch' = [batch EXCEPT ![itemId] =
                                    checkQualityByItem(itemId, @, TRUE, {})]
                            /\ errorLog' = errorLog \o
                                    itemFailedMessages(itemId, "AttributeError")
              \/ \E exception \in ConstraintExceptions :
                    /\ reply' = [status |-> "failed", covered |-> {}]
                    /\ batch' = [batch EXCEPT ![itemId] =
                                    checkQualityByItem(itemId, @, TRUE, {})]
                    /\ errorLog' = errorLog \o itemFailedMessages(itemId, exception)
    /\ itemIdx' = itemIdx + 1
    /\ pc' = IF itemIdx = Len(keys) THEN stageAfter("constraints") ELSE "byitem"
    /\ UNCHANGED <<lines, batchSize, batchIdx, batchOfIds, keys, byItem, raised,
                   out, reported>>
    /\ UNCHANGED <<randomVars, itemVars>>
    /\ UNCHANGED <<parseVars, scoreVars, liftwingVars>>

\* fetchOresScore collecting the revision ids of the records not marked failed
oresRevidsSkipFailed(itemKeys, batchOfItems) ==
    LET live == Restrict(itemKeys,
                    {id \in DOMAIN batchOfItems : "failed" \notin DOMAIN batchOfItems[id]})
    IN  [i \in 1..Len(live) |-> batchOfItems[live[i]]["revid"]]

\* the keys of the dictionary itemIds of fetchOresScore, in request order
oresRevids(itemKeys, batchOfItems) ==
    [i \in 1..Len(itemKeys) |-> batchOfItems[itemKeys[i]]["revid"]]

\* round(weightedSum, 2) for the distribution the service returns, hundredths
oresScore(id) == Round2(weightedSum(ProbabilityOf(id)))

\* the loop over r['wikidatawiki']['scores']: scored are the revision ids
\* the response has a score for
storeOresScores(batchOfItems, scored) ==
    [id \in DOMAIN batchOfItems |->
        IF batchOfItems[id]["revid"] \in scored
        THEN Update(batchOfItems[id], "ores_score" :> oresScore(id))
        ELSE batchOfItems[id]]

fetchOresScore ==
    /\ pc = "ores"
    /\ LET revids == oresRevids(keys, batch)
       IN  /\ request' = [service |-> "ores", ids |-> revids]
           /\ \/ \E scored \in SUBSET Range(revids) :
                    /\ reply' = [status |-> "ok", covered |-> scored]
                    /\ batch' = storeOresScores(batch, scored)
                    /\ pc' = stageAfter("ores")
                    /\ UNCHANGED <<errorLog, raised>>
              \/ \* 'wikidatawiki' not in r
                 /\ reply' = [status |-> "no wikidatawiki", covered |-> {}]
                 /\ errorLog' = errorLog \o << <<"no ORES scores found for items", revids>> >>
                 /\ pc' = stageAfter("ores")
                 /\ UNCHANGED <<batch, raised>>
              \/ \* transport failure or malformed JSON
                 /\ reply' = [status |-> "failed", covered |-> {}]
                 /\ Crash("fetchOresScore")
                 /\ UNCHANGED <<batch, errorLog>>
    /\ UNCHANGED <<lines, batchSize, batchIdx, batchOfIds, keys, byItem, itemIdx,
                   out, reported>>
    /\ UNCHANGED <<constraintCalls, randomVars, itemVars>>
    /\ UNCHANGED <<parseVars, scoreVars, liftwingVars>>

\* printResults opening the file with 'w' instead of 'a'
appendLinesTruncating(file, newLines) == newLines

\* open(outputFileName, 'a') ... print(..., file=outputFile)
appendLines(file, newLines) == file \o newLines

\* printResults, then print('', len(itemsWithOresScore)); the generator is
\* resumed for the next batch
writeBatch ==
    /\ pc = "write"
    /\ LET printed == printResults(keys, batch)
       IN  /\ out' = appendLines(out, printed.rows)
           /\ IF printed.raised
              THEN /\ Crash("printResults")
                   /\ UNCHANGED <<batchIdx, reported>>
              ELSE /\ reported' = Append(reported, <<Len(keys)>>)
                   /\ batchIdx' = batchIdx + 1
                   /\ pc' = stageAfter("write")
                   /\ UNCHANGED raised
    /\ UNCHANGED <<lines, batchSize, batchOfIds, keys, batch, byItem, itemIdx,
                   request, reply, errorLog>>
    /\ UNCHANGED <<constraintCalls, randomVars, itemVars>>
    /\ UNCHANGED <<parseVars, scoreVars, liftwingVars>>

Next ==
    \/ printHeader
    \/ fetchNumberOfStatements
    \/ mainReturns
    \/ fetchNumberOfSitelinks
    \/ checkQualityByBatch
    \/ checkQualityByItemStep
    \/ fetchOresScore
    \/ writeBatch

Spec == Init /\ [][Next]_vars

\* ------------------------------------------------------------ random mode
\* queryRandomItems and its consumer: the generator loop of option -r.
\* main after parseArguments (option -r), before printHeader
RandomInit ==
    /\ lines = <<>>
    /\ batchSize \in 1..MaxBatchSize
    /\ pc = "start"
    /\ batchIdx = 1
    /\ batchOfIds = <<>>
    /\ keys = <<>>
    /\ batch = <<>>
    /\ byItem = FALSE
    /\ itemIdx = 0
    /\ request = [service |-> "none", ids |-> <<>>]
    /\ reply = [status |-> "none", covered |-> {}]
    /\ raised = "none"
    /\ out \in StaleFiles
    /\ errorLog = <<>>
    /\ reported = <<>>
    /\ constraintCalls = <<>>
    /\ numberOfItems \in 1..MaxRandomItems
    /\ counter = 0
    /\ generated = 0
    /\ yielded = 0
    /\ checksFailed = 0
    /\ totalItemsChecked = 0
    /\ ParseIdle
    /\ ScoreIdle
    /\ LiftwingIdle

\* generateRandomItemIds(n): the lists of n identifiers 'Q' + randint(...) it
\* can return, repetitions included
generateRandomItemIds(n) == [1..n -> {IdOf(i) : i \in 1..MaxRandomId}]

\* queryRandomItems generating batchSize identifiers in every round
nextBatchLengthFull(size, total, count) == size

\* "min(batchSize, numberOfItems - counter)"
nextBatchLength(size, total, count) == Min(size, total - count)

\* queryRandomItems counting the identifiers generated instead of the
\* results fetched
countGenerated(count, itemIds, batchOfResults) == count + Len(itemIds)

\* "counter += len(batchOfResults)"
countResultsFetched(count, itemIds, batchOfResults) == count + Len(batchOfResults)

\* One round of the while loop of queryRandomItems: generate the next
\* identifiers, fetch their statements, advance the counter and yield.
queryRandomItems ==
    /\ pc = "fetch"
    /\ numberOfItems > 0
    /\ counter < numberOfItems
    /\ batchIdx <= MaxRounds
    /\ \E itemIds \in generateRandomItemIds(nextBatchLength(batchSize, numberOfItems, counter)) :
          /\ fetchStatements(itemIds)
          /\ generated' = generated + Len(itemIds)
    /\ IF pc' = "crashed"
       THEN UNCHANGED <<counter, yielded>>
       ELSE /\ counter' = countResultsFetched(counter, batchOfIds', keys')
            /\ yielded' = yielded + Len(keys')
    /\ UNCHANGED <<lines, batchSize, batchIdx, out, reported, numberOfItems>>
    /\ UNCHANGED itemVars
    /\ UNCHANGED <<parseVars, scoreVars, liftwingVars>>

\* "while counter < numberOfItems" ends: the generator is exhausted and
\* main returns
randomReturns ==
    /\ pc = "fetch"
    /\ numberOfItems > 0
    /\ counter >= numberOfItems
    /\ pc' = "done"
    /\ UNCHANGED <<lines, batchSize, batchIdx, batchOfIds, keys, batch, byItem,
                   itemIdx, request, reply, raised, out, errorLog, reported>>
    /\ UNCHANGED <<constraintCalls, numberOfItems, counter, generated, yielded>>
    /\ UNCHANGED itemVars
    /\ UNCHANGED <<parseVars, scoreVars, liftwingVars>>

\* The consumer of the generator, seen from the generator: the body of
\* "async for batch in batchesOfItems" runs on the yielded batch and either
\* comes back for the next batch or raises, which ends the run.  What the
\* stages do to the batch and to the files is the subject of Spec.
consumeBatch ==
    /\ pc = stageAfter("fetch")
    /\ numberOfItems > 0
    /\ \/ /\ pc' = "fetch"
          /\ batchIdx' = batchIdx + 1
          /\ UNCHANGED raised
       \/ /\ Crash("main")
          /\ UNCHANGED batchIdx
    /\ UNCHANGED <<lines, batchSize, batchOfIds, keys, batch, byItem, itemIdx,
                   request, reply, out, errorLog, reported>>
    /\ UNCHANGED <<constraintCalls, randomVars, itemVars>>
    /\ UNCHANGED <<parseVars, scoreVars, liftwingVars>>

RandomNext ==
    \/ printHeader
    \/ queryRandomItems
    \/ randomReturns
    \/ consumeBatch

RandomSpec == RandomInit /\ [][RandomNext]_vars

\* ------------------------------------------------ the walk of one report
\* parseItemCheck (and the same loops inside checkConstraints of
\* checkConstraints.py) on one item check whose content is chosen step by
\* step: at most MaxStatements statements, at most MaxResults result entries
\* in each of mainsnak, qualifiers and references.
ParseInit == PipelineIdle /\ ParseIdle /\ ScoreIdle /\ LiftwingIdle

NonClean == {"violation", "warning", "suggestion"}

\* "if not type(claims) is dict: return results"
parseEmptyClaims ==
    /\ ppc = "idle"
    /\ ppc' = "returned"
    /\ UNCHANGED <<presults, pstatements, pentries, pstatus, pcounter, pbase, pnonclean>>
    /\ UNCHANGED <<pipelineVars, scoreVars, liftwingVars>>

\* "for statement in statement_group:" takes the next statement
parseEnterStatement ==
    /\ ppc \in {"idle", "mainsnak", "qualifiers", "references"}
    /\ pstatements < MaxStatements
    /\ presults' = enterStatement(presults)
    /\ pcounter' = enterStatement(pcounter)
    /\ pstatements' = pstatements + 1
    /\ pentries' = 0
    /\ pbase' = presults.violated_statements
    /\ pnonclean' = 0
    /\ ppc' = "mainsnak"
    /\ UNCHANGED pstatus
    /\ UNCHANGED <<pipelineVars, scoreVars, liftwingVars>>

\* one result entry of the part of the statement the walk is in
parseCountResult ==
    /\ ppc \in {"mainsnak", "qualifiers", "references"}
    /\ pentries < MaxResults
    /\ \E status \in Statuses :
          /\ presults' = countResults(status, presults)
          /\ pcounter' = incrementCounter(status, pcounter)
          /\ pstatus' = status
          /\ pnonclean' = pnonclean + (IF status \in NonClean THEN 1 ELSE 0)
    /\ pentries' = pentries + 1
    /\ UNCHANGED <<ppc, pstatements, pbase>>
    /\ UNCHANGED <<pipelineVars, scoreVars, liftwingVars>>

\* "if 'qualifiers' in statement.keys():"
parseEnterQualifiers ==
    /\ ppc = "mainsnak"
    /\ ppc' = "qualifiers"
    /\ pentries' = 0
    /\ UNCHANGED <<presults, pstatements, pstatus, pcounter, pbase, pnonclean>>
    /\ UNCHANGED <<pipelineVars, scoreVars, liftwingVars>>

\* "if 'references' in statement.keys():"
parseEnterReferences ==
    /\ ppc \in {"mainsnak", "qualifiers"}
    /\ ppc' = "references"
    /\ pentries' = 0
    /\ UNCHANGED <<presults, pstatements, pstatus, pcounter, pbase, pnonclean>>
    /\ UNCHANGED <<pipelineVars, scoreVars, liftwingVars>>

\* the loops are over: "del results['statement_is_violated']; return results"
\* (checkConstraints.py returns the counter as it is)
parseReturn ==
    /\ ppc \in {"idle", "mainsnak", "qualifiers", "references"}
    /\ presults' = DelFlag(presults)
    /\ ppc' = "returned"
    /\ UNCHANGED <<pstatements, pentries, pstatus, pcounter, pbase, pnonclean>>
    /\ UNCHANGED <<pipelineVars, scoreVars, liftwingVars>>

ParseNext ==
    \/ parseEmptyClaims
    \/ parseEnterStatement
    \/ parseCountResult
    \/ parseEnterQualifiers
    \/ parseEnterReferences
    \/ parseReturn

ParseSpec == ParseInit /\ [][ParseNext]_vars

\* ------------------------------------------------- the scoring of one item
\* The loop of fetchOresScore over one probability dictionary, class by
\* class.  Probabilities are counted in units of 1 / ProbabilityGrain, and
\* so is weightedSum.
Distributions ==
    {p \in [ORES_CLASSES -> 0..ProbabilityGrain] :
        p["E"] + p["D"] + p["C"] + p["B"] + p["A"] = ProbabilityGrain}

\* score['itemquality']['score']['probability'] has been read, weightedSum = 0
ScoreInit ==
    /\ PipelineIdle
    /\ ParseIdle
    /\ LiftwingIdle
    /\ sprobability \in Distributions
    /\ spending = ORES_CLASSES
    /\ ssum = 0
    /\ sscore = 0
    /\ spc = "summing"

\* one round of "for x in probability"
scoreAddClass ==
    /\ spc = "summing"
    /\ \E x \in spending :
          /\ ssum' = ssum + weightedTerm(sprobability, x)
          /\ spending' = spending \ {x}
    /\ UNCHANGED <<sprobability, sscore, spc>>
    /\ UNCHANGED <<pipelineVars, parseVars, liftwingVars>>

\* "batchOfItems[itemId].update({'ores_score': round(weightedSum, 2)})"
scoreStore ==
    /\ spc = "summing"
    /\ spending = {}
    /\ sscore' = roundTo2(ssum, ProbabilityGrain)
    /\ spc' = "stored"
    /\ UNCHANGED <<sprobability, spending, ssum>>
    /\ UNCHANGED <<pipelineVars, parseVars, liftwingVars>>

ScoreNext ==
    \/ scoreAddClass
    \/ scoreStore

ScoreSpec == ScoreInit /\ [][ScoreNext]_vars

\* ================================== checkConstraints.py, the earlier script
\* The earlier script checks one identifier per request.  Its batches are
\* cut by the same code as queryItemsFromFile above with CHUNK_SIZE for the
\* batch size, which batchSize stands for.
ItemHeader == <<"QID", "statements", "violations_mandatory_level",
                "violations_normal_level", "violations_suggestion_level",
                "violated_statements", "total_sitelinks", "wikipedia_sitelinks">>

\* the keys printResults reads from itemResults
ItemRowKeys == {"statements", "violations_mandatory", "violations_normal",
                "violations_suggestion", "violated_statements",
                "total_sitelinks", "wikipedia_sitelinks"}

\* one output line: the eight values joined by OUTPUT_DELIMITER
ItemRow(itemId, itemResults) ==
    <<itemId, itemResults["statements"], itemResults["violations_mandatory"],
      itemResults["violations_normal"], itemResults["violations_suggestion"],
      itemResults["violated_statements"], itemResults["total_sitelinks"],
      itemResults["wikipedia_sitelinks"]>>

\* the loops "for ... in ...results: counter = incrementCounter(status, counter)"
RECURSIVE incrementAll(_, _)
incrementAll(statuses, tally) ==
    IF statuses = <<>> THEN tally
    ELSE incrementAll(Tail(statuses), incrementCounter(Head(statuses), tally))

\* the body of "for statement in statement_group" of checkConstraints(itemId)
RECURSIVE countStatements(_, _)
countStatements(statements, tally) ==
    IF statements = <<>> THEN tally
    ELSE LET statement == Head(statements)
             reset == [tally EXCEPT !.statement_is_violated = FALSE]
             main == incrementAll(statement.mainsnak, reset)
             qual == incrementAll(statement.qualifiers, main)
         IN  countStatements(Tail(statements),
                             incrementAll(statement.references, qual))

\* the counter checkConstraints(itemId) returns for a response it can read
itemCounter(itemCheck) ==
    IF ~itemCheck.claimsIsDict THEN InitialCounter
    ELSE countStatements(itemCheck.statements, InitialCounter)

\* checkConstraintViolations copying the four counts into the results
checkConstraintViolations(results, constraintViolations) ==
    Update(results,
           ("violations_mandatory" :> constraintViolations.violations) @@
           ("violations_normal" :> constraintViolations.warnings) @@
           ("violations_suggestion" :> constraintViolations.suggestions) @@
           ("violated_statements" :> constraintViolations.violated_statements))

\* checkQuality returning the length of the batch whatever failed
itemsCheckedAll(length, failed) == length

\* "return len(batchOfItems) - checksFailed"
itemsChecked(length, failed) == length - failed

\* main after parseArguments (option -i), before printHeader
ItemInit == Init

\* open(outputFileName, 'w'): the header replaces whatever the file held
itemPrintHeader ==
    /\ pc = "start"
    /\ out' = <<ItemHeader>>
    /\ pc' = "fetch"
    /\ UNCHANGED <<lines, batchSize, batchIdx, batchOfIds, keys, batch, byItem,
                   itemIdx, request, reply, raised, errorLog, reported>>
    /\ UNCHANGED <<constraintCalls, randomVars, itemVars>>
    /\ UNCHANGED <<parseVars, scoreVars, liftwingVars>>

\* queryItemsFromFile resumes: fetchNumberOfStatements on the next batch.
\* The records hold the number of statements only.
itemFetchNumberOfStatements ==
    /\ pc = "fetch"
    /\ batchIdx <= Len(Batches)
    /\ LET itemIds == Batches[batchIdx]
       IN  /\ batchOfIds' = itemIds
           /\ request' = [service |-> "statements", ids |-> itemIds]
           /\ \/ \E present \in SUBSET Range(itemIds) : \E live \in SUBSET present :
                    /\ reply' = [status |-> "ok", covered |-> present]
                    /\ keys' = Restrict(Distinct(itemIds), live)
                    /\ batch' = [id \in live |-> ("statements" :> WbClaimsOf(id))]
                    /\ errorLog' = errorLog \o
                           missingMessages(Restrict(Distinct(itemIds), present \ live))
                    /\ pc' = "sitelinks"
                    /\ UNCHANGED raised
              \/ \* transport failure, malformed JSON or no r['query']['pages']
                 /\ reply' = [status |-> "failed", covered |-> {}]
                 /\ Crash("fetchNumberOfStatements")
                 /\ keys' = <<>>
                 /\ batch' = <<>>
                 /\ UNCHANGED errorLog
    /\ UNCHANGED <<lines, batchSize, batchIdx, byItem, itemIdx, out, reported>>
    /\ UNCHANGED <<constraintCalls, randomVars, itemVars>>
    /\ UNCHANGED <<parseVars, scoreVars, liftwingVars>>

\* the generator is exhausted: the async for ends and main returns
itemMainReturns ==
    /\ pc = "fetch"
    /\ batchIdx > Len(Batches)
    /\ pc' = "done"
    /\ UNCHANGED <<lines, batchSize, batchIdx, batchOfIds, keys, batch, byItem,
                   itemIdx, request, reply, raised, out, errorLog, reported>>
    /\ UNCHANGED <<constraintCalls, randomVars, itemVars>>
    /\ UNCHANGED <<parseVars, scoreVars, liftwingVars>>

\* fetchNumberOfSitelinks(batch), then checkQuality begins: checksFailed = 0
itemFetchNumberOfSitelinks ==
    /\ pc = "sitelinks"
    /\ request' = [service |-> "sitelinks", ids |-> keys]
    /\ \/ \E covered \in SUBSET Range(keys) :
            /\ reply' = [status |-> "ok", covered |-> covered]
            /\ batch' = [id \in DOMAIN batch |->
                            IF id \in covered
                            THEN Update(batch[id], sitelinkCounts(SitelinksOf(id)))
                            ELSE batch[id]]
            /\ pc' = "quality"
            /\ UNCHANGED raised
       \/ \* transport failure, or 'entities' not in r
          \E status \in {"failed", "no entities"} :
            /\ reply' = [status |-> status, covered |-> {}]
            /\ Crash("fetchNumberOfSitelinks")
            /\ UNCHANGED batch
    /\ itemIdx' = 0
    /\ checksFailed' = 0
    /\ constraintCalls' = <<>>
    /\ UNCHANGED <<lines, batchSize, batchIdx, batchOfIds, keys, byItem,
                   out, errorLog, reported, totalItemsChecked, randomVars>>
    /\ UNCHANGED <<parseVars, scoreVars, liftwingVars>>

\* One turn of the loop of checkQuality on the item after the itemIdx
\* already handled.  checkConstraints raises, or checkConstraintViolations
\* fills the record in place and printResults appends the row; printResults
\* raises KeyError, before it writes, on a record without sitelink counts.
itemCheckQuality ==
    /\ pc = "quality"
    /\ itemIdx < Len(keys)
    /\ LET itemId == keys[itemIdx + 1]
           itemResults == checkConstraintViolations(batch[itemId],
                                                    itemCounter(ItemCheckOf(itemId)))
       IN  /\ request' = [service |-> "constraints", ids |-> <<itemId>>]
           /\ constraintCalls' = Append(constraintCalls, <<itemId>>)
           /\ \/ /\ reply' = [status |-> "ok", covered |-> {itemId}]
                 /\ batch' = [batch EXCEPT ![itemId] = itemResults]
                 /\ IF ItemRowKeys \subseteq DOMAIN itemResults
                    THEN /\ out' = Append(out, ItemRow(itemId, itemResults))
                         /\ UNCHANGED <<checksFailed, errorLog>>
                    ELSE /\ checksFailed' = checksFailed + 1
                         /\ errorLog' = Append(errorLog, <<"KeyError", "total_sitelinks">>)
                         /\ UNCHANGED out
              \/ \E exception \in ConstraintExceptions :
                    /\ reply' = [status |-> "failed", covered |-> {}]
                    /\ checksFailed' = checksFailed + 1
                    /\ errorLog' = Append(errorLog, <<exception, itemId>>)
                    /\ UNCHANGED <<batch, out>>
    /\ itemIdx' = itemIdx + 1
    /\ UNCHANGED <<lines, batchSize, pc, batchIdx, batchOfIds, keys, byItem,
                   raised, reported, totalItemsChecked, randomVars>>
    /\ UNCHANGED <<parseVars, scoreVars, liftwingVars>>

\* checkQuality returns and main adds to the running total and prints it
itemCheckQualityReturns ==
    /\ pc = "quality"
    /\ itemIdx = Len(keys)
    /\ totalItemsChecked' = totalItemsChecked + itemsChecked(Len(keys), checksFailed)
    /\ reported' = Append(reported, <<totalItemsChecked'>>)
    /\ batchIdx' = batchIdx + 1
    /\ pc' = "fetch"
    /\ UNCHANGED <<lines, batchSize, batchOfIds, keys, batch, byItem, itemIdx,
                   request, reply, raised, out, errorLog, constraintCalls,
                   checksFailed, randomVars>>
    /\ UNCHANGED <<parseVars, scoreVars, liftwingVars>>

ItemNext ==
    \/ itemPrintHeader
    \/ itemFetchNumberOfStatements
    \/ itemMainReturns
    \/ itemFetchNumberOfSitelinks
    \/ itemCheckQuality
    \/ itemCheckQualityReturns

ItemSpec == ItemInit /\ [][ItemNext]_vars

\* ============================================================= liftwing.py
\* the model names a caller may pass
LiftwingModels == <<"itemquality", "damaging", "goodfaith">>

\* the tasks of make_liftiwing_calls in the order of the comprehension
\* "for revid in rev_ids for model in models", as <<revid, model>>
liftwingTasks(revids, models) ==
    [k \in 1..(Len(revids) * Len(models)) |->
        <<revids[((k - 1) \div Len(models)) + 1],
          models[((k - 1) % Len(models)) + 1]>>]

\* response_json of a call that succeeded, below the key wiki_id: the
\* scores of one revision under one model
liftwingResponse(revid, model) ==
    [scores |-> (revid :> (model :>
                    [prediction |-> IF revid % 2 = 0 THEN "A" ELSE "B"]))]

\* the branch for k == "scores" of merge_liftwing_responses: result is
\* result[wiki_id]["scores"], v the scores of one response
mergeScores(v, result) ==
    [revid \in (DOMAIN v) \cup (DOMAIN result) |->
        IF revid \in DOMAIN v
        THEN IF revid \in DOMAIN result
             THEN Update(result[revid], v[revid])
             ELSE v[revid]
        ELSE result[revid]]

\* merge_liftwing_responses on the list gather returned; an empty response
\* is skipped
RECURSIVE merge_liftwing_responses(_, _)
merge_liftwing_responses(responses, result) ==
    IF responses = <<>> THEN result
    ELSE LET d == Head(responses)
         IN  IF DOMAIN d = {}
             THEN merge_liftwing_responses(Tail(responses), result)
             ELSE merge_liftwing_responses(Tail(responses),
                                           mergeScores(d.scores, result))

\* make_liftiwing_calls has built its tasks and awaits gather
LiftwingInit ==
    /\ PipelineIdle
    /\ ParseIdle
    /\ ScoreIdle
    /\ lrevids \in {[i \in 1..n |-> i] : n \in 0..MaxRevisions}
    /\ lmodels \in {SubSeq(LiftwingModels, 1, n) : n \in 1..MaxModels}
    /\ ltasks = [t \in Range(liftwingTasks(lrevids, lmodels)) |-> "pending"]
    /\ llog = <<>>
    /\ lresult = <<>>
    /\ lpc = "gathering"

\* get_liftwing_response: the post succeeds, response_json is bound and
\* returned
liftwingCallSucceeds ==
    /\ lpc \in {"gathering", "raised"}
    /\ \E t \in DOMAIN ltasks :
          /\ ltasks[t] = "pending"
          /\ ltasks' = [ltasks EXCEPT ![t] = "returned"]
    /\ UNCHANGED <<lrevids, lmodels, llog, lresult, lpc>>
    /\ UNCHANGED <<pipelineVars, parseVars, scoreVars>>

\* get_liftwing_response: the post raises aiohttp.ClientError; the except
\* branch logs, and "return response_json" then reads a name that was never
\* bound, so the task ends with UnboundLocalError
liftwingCallFails ==
    /\ lpc \in {"gathering", "raised"}
    /\ \E t \in DOMAIN ltasks :
          /\ ltasks[t] = "pending"
          /\ llog' = Append(llog, <<"LiftWing call failed", t[2], t[1]>>)
          /\ ltasks' = [ltasks EXCEPT ![t] = "UnboundLocalError"]
    /\ UNCHANGED <<lrevids, lmodels, lresult, lpc>>
    /\ UNCHANGED <<pipelineVars, parseVars, scoreVars>>

\* asyncio.gather without return_exceptions: the exception of a task is
\* raised at the await, and make_liftiwing_calls, which does not catch it,
\* raises it to its caller; the other tasks are not cancelled
gatherRaises ==
    /\ lpc = "gathering"
    /\ \E t \in DOMAIN ltasks : ltasks[t] = "UnboundLocalError"
    /\ lpc' = "raised"
    /\ UNCHANGED <<lrevids, lmodels, ltasks, llog, lresult>>
    /\ UNCHANGED <<pipelineVars, parseVars, scoreVars>>

\* every task has returned: gather returns the responses in task order and
\* make_liftiwing_calls returns their merge
gatherReturns ==
    /\ lpc = "gathering"
    /\ \A t \in DOMAIN ltasks : ltasks[t] = "returned"
    /\ LET tasks == liftwingTasks(lrevids, lmodels)
           result == [k \in 1..Len(tasks) |->
                         liftwingResponse(tasks[k][1], tasks[k][2])]
       IN  lresult' = merge_liftwing_responses(result, <<>>)
    /\ lpc' = "returned"
    /\ UNCHANGED <<lrevids, lmodels, ltasks, llog>>
    /\ UNCHANGED <<pipelineVars, parseVars, scoreVars>>

LiftwingNext ==
    \/ liftwingCallSucceeds
    \/ liftwingCallFails
    \/ gatherRaises
    \/ gatherReturns

LiftwingSpec == LiftwingInit /\ [][LiftwingNext]_vars

\* ================================================================= claims
\* the positions of the data rows of out that carry one of ids
RowsOf(ids) == {i \in 2..Len(out) : out[i][1] \in ids}

IsFailed(id) == "failed" \in DOMAIN batch[id]

Failed == {id \in DOMAIN batch : IsFailed(id)}

ViolationKeys == {"violations_mandatory", "violations_normal",
                  "violations_suggestion", "violated_statements"}

\* printResults has returned for the batch held in batchOfIds / batch
BatchWritten == pc \in {"fetch", "done"} /\ batchIdx > 1

\* printResults has run for the batch: it returned, or it raised
BatchThroughWriter == BatchWritten \/ (pc = "crashed" /\ raised = "printResults")

\* ---- C1 ----------------------------------------------------------------
\* C1: for every batch, the rows appended for it plus the identifiers marked
\* failed plus the identifiers dropped by the Statement Fetcher equal the
\* identifiers of the input batch.  Stated for the batches that went through
\* every stage up to printResults.
C1_RowsFailedDroppedCoverBatch ==
    BatchThroughWriter =>
        Cardinality(RowsOf(Range(batchOfIds))) + Cardinality(Failed)
            + (Len(batchOfIds) - Len(keys)) = Len(batchOfIds)

\* ---- C2 ----------------------------------------------------------------
\* the one-by-one call for id returned, with the report of id in it
ItemCallSucceeded(id) ==
    /\ id \in DOMAIN batch[id]
    /\ ViolationKeys \subseteq DOMAIN batch[id]

\* C2: after the fallback of checkQualityByBatch, the identifiers whose
\* one-by-one call failed are marked failed and have no output row, and each
\* identifier whose one-by-one call succeeded has its four counters, is not
\* marked failed and has an output row.
C2_FallbackRowsExactlyRecovered ==
    (byItem /\ BatchThroughWriter) =>
        \A id \in DOMAIN batch :
            /\ IsFailed(id) => RowsOf({id}) = {}
            /\ IsFailed(id) <=> id \notin DOMAIN batch[id]
            /\ ItemCallSucceeded(id) => (~IsFailed(id) /\ RowsOf({id}) # {})

\* ---- C3 ----------------------------------------------------------------
\* C3: when fetchNumberOfStatements or fetchNumberOfSitelinks fails, the
\* batch alone is abandoned: the run goes on with the next batch and the
\* output file is left as it was.
C3_FetchFailureSkipsToNextBatch ==
    [][(pc \in {"fetch", "sitelinks"} /\ reply'.status # "ok" /\ reply' # reply)
          => (pc' = "fetch" /\ batchIdx' = batchIdx + 1 /\ out' = out)]_vars

\* ---- C4 ----------------------------------------------------------------
\* C4: no row of the output file carries an identifier whose record of the
\* batch has the failed sentinel.
C4_FailedNeverWritten ==
    \A i \in 2..Len(out) :
        out[i][1] \in DOMAIN batch => ~IsFailed(out[i][1])

\* a batch was written that holds a failed record complete in every output
\* field and a record that was written
C4_Witness ==
    /\ BatchWritten
    /\ \E id \in Failed : RowKeys \subseteq DOMAIN batch[id]
    /\ RowsOf(DOMAIN batch) # {}

\* ---- C5 ----------------------------------------------------------------
\* C5 as stated: the request of fetchOresScore leaves out the revision id of
\* every failed record, and no failed record carries a quality score.
C5_FailedSkippedByScorer ==
    \A id \in Failed :
        /\ request.service = "ores" => batch[id]["revid"] \notin Range(request.ids)
        /\ "ores_score" \notin DOMAIN batch[id]

\* C5 amended: a failed record stays failed and is never written, but
\* fetchOresScore treats it like any other record: its request lists the
\* revision id of every record of the batch, and every record whose revision
\* id the response scores, failed or not, gets an ores_score.
C5_FailedScoredButNotWritten ==
    /\ \A id \in Failed : RowsOf({id}) = {}
    /\ request.service = "ores" =>
          /\ Range(request.ids) = {batch[id]["revid"] : id \in DOMAIN batch}
          /\ reply.status = "ok" =>
                \A id \in DOMAIN batch :
                    batch[id]["revid"] \in reply.covered
                        => "ores_score" \in DOMAIN batch[id]

\* a failed record has been scored and the batch has been written without it
C5_Witness ==
    /\ BatchWritten
    /\ request.service = "ores"
    /\ \E id \in Failed :
          /\ batch[id]["revid"] \in Range(request.ids)
          /\ "ores_score" \in DOMAIN batch[id]
          /\ RowsOf({id}) = {}

\* ---- C6 ----------------------------------------------------------------
\* C6: every data row has its nine columns, and no batch ends with only some
\* of its non-failed records written.
C6_NoPartlyWrittenBatch ==
    /\ \A i \in 2..Len(out) : Len(out[i]) = Len(Header)
    /\ BatchThroughWriter =>
          \/ RowsOf(DOMAIN batch) = {}
          \/ \A id \in (DOMAIN batch) \ Failed : RowsOf({id}) # {}

\* ---- C7 ----------------------------------------------------------------
\* C7: when the quality-score response lacks the 'wikidatawiki' container,
\* the rows of the non-failed records of the batch are still written and the
\* run goes on.
C7_UnscoredBatchStillWritten ==
    (BatchThroughWriter /\ request.service = "ores"
        /\ reply.status = "no wikidatawiki") =>
            /\ pc # "crashed"
            /\ \A id \in (DOMAIN batch) \ Failed : RowsOf({id}) # {}

\* ---- C8 ----------------------------------------------------------------
\* C8: once printHeader has run, the first line of the file is the header,
\* no other line is, and every step leaves the lines already in the file in
\* place and unchanged (it can only add lines after them).
C8_AppendOnlyAfterHeader ==
    [][/\ pc # "start" => IsPrefix(out, out')
       /\ pc' # "start" =>
             /\ Len(out') >= 1
             /\ out'[1] = Header
             /\ \A i \in 2..Len(out') : out'[i][1] # Header[1]]_vars

\* a later batch was abandoned because the sitelinks response had no
\* 'entities', with rows of an earlier batch in the file
C8_Witness ==
    /\ pc = "crashed"
    /\ raised = "fetchNumberOfSitelinks"
    /\ reply.status = "no entities"
    /\ batchIdx > 1
    /\ Len(out) > 1

\* ---- C9 ----------------------------------------------------------------
\* C9: while a statement is walked, violated_statements is at most one above
\* its value at the start of the statement, and exactly one above it as soon
\* as the statement has shown a violation, warning or suggestion entry; every
\* such entry adds one to its own severity counter and to no other; entering
\* a statement clears the per-statement flag.
C9_ViolatedStatementsOncePerStatement ==
    [][/\ presults'.violated_statements - pbase' \in {0, 1}
       /\ pnonclean' > 0 => presults'.violated_statements = pbase' + 1
       /\ pstatements' = pstatements + 1 =>
             /\ presults'.statement_is_violated = FALSE
             /\ pbase' = presults.violated_statements
       /\ pentries' = pentries + 1 =>
             /\ presults'.violations_mandatory = presults.violations_mandatory
                   + (IF pstatus' = "violation" THEN 1 ELSE 0)
             /\ presults'.violations_normal = presults.violations_normal
                   + (IF pstatus' = "warning" THEN 1 ELSE 0)
             /\ presults'.violations_suggestion = presults.violations_suggestion
                   + (IF pstatus' = "suggestion" THEN 1 ELSE 0)]_vars

\* two statements were walked, each with several violation, warning or
\* suggestion entries
C9_Witness ==
    /\ ppc = "returned"
    /\ pstatements = 2
    /\ pnonclean >= 2
    /\ presults.violated_statements = 2
    /\ presults.violations_mandatory + presults.violations_normal
          + presults.violations_suggestion >= 4

\* ---- C10 ---------------------------------------------------------------
\* C10: a countResults call (and an incrementCounter call of the earlier
\* script) with status bad-parameters returns the dictionary as it was: the
\* three severity counters, violated_statements and the per-statement flag.
C10_BadParametersChangesNothing ==
    [][(pentries' = pentries + 1 /\ pstatus' = "bad-parameters")
          => (presults' = presults /\ pcounter' = pcounter)]_vars

\* a bad-parameters entry was read in a statement that is not violated so far
C10_Witness ==
    /\ ppc \in {"mainsnak", "qualifiers", "references"}
    /\ pstatus = "bad-parameters"
    /\ pentries >= 1
    /\ presults.statement_is_violated = FALSE
    /\ pnonclean = 0

\* ---- C11 ---------------------------------------------------------------
\* the identifiers whose item check gives 'claims' as the empty list
EmptyListClaims == {id \in Ids : ~ItemCheckOf(id).claimsIsDict}

\* a constraint-check response has just been processed and it held an
\* identifier whose claims are the empty list
EmptyListChecked ==
    /\ request.service = "constraints"
    /\ reply.status = "ok"
    /\ \E id \in reply.covered : ~ItemCheckOf(id).claimsIsDict

\* C11: when the constraint-check response gives an identifier's claims as
\* the empty list, the identifier gets all four violation counters equal to
\* 0 and nothing is raised: the identifier is not marked failed, and a
\* batch-level call that held it does not go on to the one-by-one fallback.
C11_EmptyListClaimsCountZero ==
    EmptyListChecked =>
        /\ \A id \in reply.covered \cap EmptyListClaims :
              /\ ViolationKeys \subseteq DOMAIN batch[id]
              /\ \A k \in ViolationKeys : batch[id][k] = 0
              /\ ~IsFailed(id)
        /\ (Len(request.ids) > 1 => ~byItem)

\* a batch-level call over several identifiers has come back with an
\* empty-list identifier among them
C11_Witness ==
    /\ EmptyListChecked
    /\ Len(request.ids) > 1
    /\ pc = "ores"
    /\ \E id \in reply.covered : id \notin EmptyListClaims

\* ---- C12 ---------------------------------------------------------------
\* the concatenation of a sequence of sequences
RECURSIVE Flatten(_)
Flatten(seqs) == IF seqs = <<>> THEN <<>> ELSE Head(seqs) \o Flatten(Tail(seqs))

\* the statement fetch of the current batch has just returned
BatchFetched == request.service = "statements" /\ pc = "sitelinks"

\* C12: in file mode the batches, taken in order, concatenate to exactly
\* the input lines and every batch has at most batchSize identifiers; the
\* batch the pipeline fetches is the next slice of the lines, and a run that
\* ends normally has taken every batch.  (lines and batchSize do not change
\* during a run, so the split as a whole is examined where main starts.)
C12_BatchesPartitionLines ==
    LET batches == Batches
    IN  /\ (pc = "start"
                => /\ Flatten(batches) = lines
                   /\ \A i \in 1..Len(batches) : Len(batches[i]) <= batchSize)
        /\ (BatchFetched
                => LET before == Len(Flatten(SubSeq(batches, 1, batchIdx - 1)))
                   IN  /\ batchOfIds = batches[batchIdx]
                       /\ batchOfIds = SubSeq(lines, before + 1, before + Len(batchOfIds))
                       /\ Len(batchOfIds) <= batchSize)
        /\ (pc = "done" => batchIdx = Len(batches) + 1)

\* the second batch of a file that needs more than one batch has been fetched
C12_Witness ==
    /\ Len(lines) = 3
    /\ batchSize = 2
    /\ batchIdx = 2
    /\ pc = "sitelinks"
    /\ batchOfIds = <<IdOf(3)>>

C14_GeneratedEqualsCount ==
    (numberOfItems > 0 /\ pc = "done") => generated = numberOfItems

\* C14, amended: the identifiers of the yielded batches (the generated
\* identifiers the lookup returned as live) never number more than the
\* configured count and number exactly the count when the run ends normally;
\* the identifiers generated are at least as many.
C14_YieldedEqualsCount ==
    numberOfItems > 0 =>
        /\ yielded <= numberOfItems
        /\ yielded <= generated
        /\ Len(batchOfIds) <= batchSize
        /\ (pc = "done" => yielded = numberOfItems /\ generated >= numberOfItems)

\* a run that ended normally after the lookup had dropped an identifier
C14_Witness ==
    /\ numberOfItems > 0
    /\ pc = "done"
    /\ yielded = numberOfItems
    /\ generated > numberOfItems

\* ---- C15 ---------------------------------------------------------------
\* C15: after writing a batch the orchestrator reports the number of that
\* batch's identifiers that were written (records marked failed excluded)
\* together with the number of identifiers written over all batches so far.
C15_ReportsWrittenAndTotal ==
    BatchWritten =>
        reported[Len(reported)] =
            <<Cardinality(RowsOf(Range(batchOfIds))), Len(out) - 1>>

\* ---- C16 ---------------------------------------------------------------
\* error.log holds a missing/redirected message naming id
LoggedMissing(id) ==
    \E i \in 1..Len(errorLog) :
        /\ errorLog[i][1] = "does not exist or is a redirect"
        /\ errorLog[i][2] = id

\* C16: every identifier of the input batch that is not in the dictionary
\* fetchNumberOfStatements returns, whether the response has no page for it
\* or a page without pageprops, has a missing/redirected message naming it
\* in the error log.
C16_EveryDroppedIdLogged ==
    (request.service = "statements" /\ reply.status = "ok")
        => \A id \in Range(batchOfIds) \ Range(keys) : LoggedMissing(id)

\* ---- C17 ---------------------------------------------------------------
\* the statement fetch returned for a batch of at least one identifier and
\* kept none of them
AllDropped == batchOfIds # <<>> /\ keys = <<>> /\ reply.status # "none"

\* C17: a batch whose identifiers the lookup all reports as missing or
\* redirected raises no exception: no row is written for it and the
\* pipeline goes on to the next batch.  (Transport failures of the later
\* calls are left aside: the statement holds whenever no call has failed in
\* transport.)
C17_AllDroppedBatchGoesOn ==
    (AllDropped /\ reply.status # "failed") => pc # "crashed"

\* ---- C18 ---------------------------------------------------------------
\* C18: for a probability distribution over E, D, C, B, A that sums to 1,
\* the score fetchOresScore stores (the weighted sum with weights 1..5,
\* rounded to two decimals) lies in the closed range [1.0, 5.0]; while the
\* loop runs the weighted sum never exceeds 5.
C18_ScoreBetweenOneAndFive ==
    /\ (spc = "stored" => sscore \in 100..500)
    /\ (spc \in {"summing", "stored"} => ssum <= 5 * ProbabilityGrain)
    /\ (spc = "stored" => ssum >= ProbabilityGrain)

\* a score has been stored for a distribution with a class of probability 0
\* whose weighted sum is not a whole number
C18_Witness ==
    /\ spc = "stored"
    /\ sscore % 100 # 0
    /\ \E x \in ORES_CLASSES : sprobability[x] = 0

\* ---- C19 ---------------------------------------------------------------
\* the service a step taken at the given position of main calls
ServiceOf(stage) ==
    CASE stage = "fetch" -> "statements"
      [] stage = "sitelinks" -> "sitelinks"
      [] stage \in {"constraints", "byitem"} -> "constraints"
      [] stage = "ores" -> "ores"

\* the positions main can be at after a step taken at the given one
StagesAfter(stage) ==
    CASE stage = "start" -> {"fetch"}
      [] stage = "fetch" -> {"sitelinks", "crashed", "done"}
      [] stage = "sitelinks" -> {"constraints", "crashed"}
      [] stage = "constraints" -> {"byitem", "ores"}
      [] stage = "byitem" -> {"byitem", "ores"}
      [] stage = "ores" -> {"write", "crashed"}
      [] stage = "write" -> {"fetch", "crashed"}

\* C19: the pipeline makes its remote calls one at a time and in a fixed
\* order: a step issues at most one call, and only when every earlier call
\* has been answered; within a batch the calls go statement fetch, sitelink
\* enrichment, constraint check, quality scoring, then the write; and the
\* statement fetch of batch k+1 is issued only when the write of batch k
\* has returned.
C19_OneCallAtATimeInStageOrder ==
    [][ /\ pc' \in StagesAfter(pc)
        /\ (request' # request => /\ pc \in {"fetch", "sitelinks", "constraints",
                                              "byitem", "ores"}
                                  /\ request'.service = ServiceOf(pc))
        /\ (pc \in {"fetch", "sitelinks", "constraints", "byitem", "ores"}
                /\ pc' # "done"
                => /\ request'.service = ServiceOf(pc)
                   /\ reply'.status # "none")
        /\ (request.service # "none" => reply.status # "none")
        /\ (pc \in {"start", "write"} => request' = request /\ reply' = reply)
        /\ (request'.service = "statements" /\ pc = "fetch"
                => /\ Len(reported) = batchIdx - 1
                   /\ Len(out) >= 1)
        /\ (pc = "write" /\ pc' = "fetch" => Len(reported') = batchIdx)
      ]_vars

\* the statement fetch of a second batch has been issued after the first
\* batch went through all its stages
C19_Witness ==
    /\ pc = "sitelinks"
    /\ batchIdx = 2
    /\ request.service = "statements"
    /\ Len(reported) = 1
    /\ keys # <<>>

\* ---- C20 ---------------------------------------------------------------
\* C20: for each batch the Constraint Checker issues exactly one batch-level
\* call listing all identifiers; single-identifier calls are issued only
\* after that call has failed, and then once per identifier of the batch in
\* order: a batch of N identifiers causes 1 or 1 + N constraint-check
\* calls, and never a single-identifier call after a batch call that
\* succeeded.
C20_OneBatchCallThenOnePerItem ==
    /\ (pc \in {"sitelinks", "constraints"} => constraintCalls = <<>>)
    /\ (pc \in {"byitem", "ores", "write"}
            => /\ Len(constraintCalls) >= 1
               /\ constraintCalls[1] = keys
               /\ \A i \in 2..Len(constraintCalls) :
                     constraintCalls[i] = <<keys[i - 1]>>)
    /\ (pc = "byitem" => byItem /\ Len(constraintCalls) = itemIdx)
    /\ (pc \in {"ores", "write"}
            => Len(constraintCalls) = IF byItem THEN 1 + Len(keys) ELSE 1)
    /\ (Len(constraintCalls) > 1 => byItem)

\* the fallback has run to its end for a batch of several identifiers
C20_Witness ==
    /\ pc = "ores"
    /\ byItem
    /\ Len(keys) > 1
    /\ Len(constraintCalls) = 1 + Len(keys)

\* ---- C21 ---------------------------------------------------------------
\* C21: a statement is counted as violated only for a violation, a warning
\* or a suggestion: a statement whose result entries all carry another
\* status leaves violated_statements unchanged, so violated_statements never
\* exceeds the sum of the three violation counters (in parseItemCheck and in
\* the counter of checkConstraints.py alike).
C21_ViolatedStatementsAtMostViolations ==
    /\ presults.violated_statements <=
           presults.violations_mandatory + presults.violations_normal
           + presults.violations_suggestion
    /\ pcounter.violated_statements <=
           pcounter.violations + pcounter.warnings + pcounter.suggestions
    /\ (ppc \in {"mainsnak", "qualifiers", "references"} /\ pnonclean = 0
            => presults.violated_statements = pbase)

\* ---- C22 ---------------------------------------------------------------
\* the data rows of the output file
DataRows == Len(out) - 1

\* the state part: while checkQuality runs, the rows it appended are the
\* items it handled less the failed ones; it handles every item of the
\* batch before it returns; each total printed is the number of data rows
\* at that moment; nothing raised inside checkQuality leaves main
C22_Counts ==
    /\ pc = "quality" =>
           /\ Len(constraintCalls) = itemIdx
           /\ DataRows = totalItemsChecked + (itemIdx - checksFailed)
    /\ (pc \in {"fetch", "done"} /\ batchIdx > 1) =>
           /\ constraintCalls = [i \in 1..Len(keys) |-> <<keys[i]>>]
           /\ Len(reported) = batchIdx - 1
           /\ reported[Len(reported)] = <<totalItemsChecked>>
           /\ totalItemsChecked = DataRows
    /\ pc = "crashed" =>
           raised \in {"fetchNumberOfStatements", "fetchNumberOfSitelinks"}

\* the step part: a failed item costs one log line and no row, and the
\* loop goes on with the next item
C22_FailedStep ==
    checksFailed' > checksFailed =>
        /\ pc' = "quality"
        /\ itemIdx' = itemIdx + 1
        /\ Len(errorLog') = Len(errorLog) + 1
        /\ out' = out

\* C22: in the per-item pipeline of checkConstraints.py a failure on one
\* identifier is logged and the remaining identifiers of the batch are
\* still checked and written, and the total printed after every batch is
\* the number of data rows appended to the output file so far.
C22_FailureLoggedTotalIsRows == []C22_Counts /\ [][C22_FailedStep]_vars

\* a batch is over in which an item failed and a later one was written
C22_Witness ==
    /\ pc = "fetch"
    /\ batchIdx > 1
    /\ checksFailed >= 1
    /\ Len(keys) >= 2
    /\ out[Len(out)][1] = keys[Len(keys)]
    /\ reported[Len(reported)] = <<DataRows>>
    /\ DataRows >= 1

\* ---- C23 ---------------------------------------------------------------
\* the state part: the counter stays within the configured count, and the
\* generator is not exhausted while the counter is short of it; with no
\* live identifier seen the counter is 0, so it is never exhausted
C23_CounterWithinCount ==
    numberOfItems > 0 =>
        /\ counter <= numberOfItems
        /\ (pc = "done" => counter = numberOfItems)
        /\ (counter = 0 => pc # "done")

\* the step part: the generator ends at the very step that finds the
\* counter equal to the count, and the counter advances by the live
\* identifiers of the round only
C23_CounterStep ==
    numberOfItems > 0 =>
        /\ (pc # "done" /\ pc' = "done") => counter = numberOfItems
        /\ (pc = "fetch" /\ counter = numberOfItems) => pc' = "done"
        /\ counter' >= counter
        /\ counter' # counter =>
               /\ request'.service = "statements"
               /\ reply'.status = "ok"
               /\ counter' = counter + Len(keys')

\* C23: in random mode the counter of live identifiers yielded never
\* exceeds the configured count, the generator stops exactly when the
\* counter equals the count, and it stops only after the lookup service has
\* reported that many generated identifiers as live: rounds in which every
\* identifier is missing leave the counter where it was.
C23_StopsExactlyAtCount == []C23_CounterWithinCount /\ [][C23_CounterStep]_vars

\* a round in which every identifier was missing is over and the generator
\* is about to run the next one
C23_Witness ==
    /\ numberOfItems > 0
    /\ pc = "fetch"
    /\ batchIdx > 1
    /\ generated > 0
    /\ counter = 0

\* ---- C24 ---------------------------------------------------------------
\* C24: in file mode with a non-empty input and any batch size >= 1 no
\* batch is empty, so fetchNumberOfStatements is never called with an
\* empty list of identifiers.
C24_NoEmptyBatch ==
    (numberOfItems = 0 /\ Len(lines) > 0 /\ request.service = "statements") =>
        request.ids # <<>>

\* ---- C25 ---------------------------------------------------------------
\* the scores of the pair <<revid, model>> are in the merged result
InMerged(t) == t[1] \in DOMAIN lresult /\ t[2] \in DOMAIN lresult[t[1]]

\* C25: a transport failure of the call for one (revision, model) pair is
\* logged and leaves make_liftiwing_calls returning a merged result that
\* holds the scores of every pair whose call succeeded.
C25_MergedKeepsSucceededPairs ==
    (lpc \in {"returned", "raised"} /\ \A t \in DOMAIN ltasks : ltasks[t] # "pending") =>
        /\ Len(llog) = Cardinality({t \in DOMAIN ltasks : ltasks[t] # "returned"})
        /\ \A t \in DOMAIN ltasks : ltasks[t] = "returned" => InMerged(t)

====
